---- MODULE Spec2Model ----
(***************************************************************************)
(* Model of py3xui: the authenticated request/retry pipeline               *)
(* (py3xui/api/api_base.py: BaseApi), the Api facade that groups the       *)
(* client, inbound and database sub-clients, the endpoint operations of    *)
(* InboundApi, ClientApi and AsyncInboundApi, and the typed models of      *)
(* py3xui/inbound with their JSON-string decoding.                         *)
(*                                                                         *)
(* One call of _request_with_retry is unfolded into one step per loop      *)
(* iteration (Attempt) so that the number of attempts, the cookie of each  *)
(* attempt and the delays slept are observable.                            *)
(***************************************************************************)
EXTENDS Integers, Sequences, FiniteSets, TLC

VARIABLES
    session,        \* BaseApi._session of each sub-client
    max_retries,    \* BaseApi._max_retries of each sub-client
    pc,             \* "idle" | "running" (inside the retry loop) | "done"
    self,           \* the sub-client whose method is executing
    op,             \* "login" | "get" | "post" | "none"
    kwargs,         \* the skip_check entry of **kwargs of the running call
    rangeEnd,       \* max_retries as read when range(1, max_retries + 1) was built
    retry,          \* the loop variable of _request_with_retry
    attempts,       \* number of method(url, ...) calls made by the running call
    cookies,        \* the session cookie passed to each of those calls
    outcomes,       \* what each of those calls produced at transport level
    delays,         \* the arguments of the sleep() calls of the running call
    response,       \* the last requests.Response received by the running call
    checked,        \* TRUE iff _check_response ran in the last attempt
    skipArg,        \* the skip_check argument the caller passed ("absent" if none)
    sendResult,     \* how _request_with_retry ended
    loginResult,    \* how login ended
    opResult,       \* how the endpoint operation that made the call ended
    hostArg,        \* the host argument the sub-clients were constructed with
    host,           \* BaseApi._host of each sub-client
    username,       \* BaseApi._username of each sub-client
    password,       \* BaseApi._password of each sub-client
    url,            \* the url argument of the running call
    setterArg,      \* the value last assigned to max_retries of each sub-client
    skip_login,     \* the skip_login argument of Api.__init__
    ctor,           \* Api.__init__: "new" (sub-clients built) | "login" | "returned" | "raised"
    cls,            \* the model class being constructed ("none" if none)
    origin,         \* the structured value the wire data stands for, if any
    raw,            \* the wire data handed to the model class
    stage,          \* "none" | "new" | "hooked" | "validated"
    hooked,         \* what the pre-validation hook did with raw
    built,          \* what the construction of the model ended with
    dumped          \* the model whose JSON text raw is, if to_json wrote raw

sessionVars == <<session, max_retries>>
configVars == <<hostArg, host, username, password, skip_login>>
callVars == <<pc, self, op, kwargs, rangeEnd, retry, attempts, cookies, outcomes,
              delays, response, checked, skipArg, sendResult, loginResult, url,
              opResult>>
vars == <<session, max_retries, pc, self, op, kwargs, rangeEnd, retry, attempts,
          cookies, outcomes, delays, response, checked, skipArg, sendResult,
          loginResult, hostArg, host, username, password, url, setterArg,
          cls, origin, raw, stage, hooked, built, opResult, skip_login, ctor,
          dumped>>
modelVars == <<cls, origin, raw, stage, hooked, built, dumped>>
apiVars == <<sessionVars, configVars, callVars, setterArg, ctor>>

----------------------------------------------------------------------------
(* Bounds *)

\* largest value handed to the max_retries setter
MaxBudget == 3

\* longest host string given to a constructor
MaxHostLen == 3

\* largest number of keys of an object handed to a model class
MaxKeys == 3

----------------------------------------------------------------------------
(* Python / JSON values: <<type, text>> *)

None == <<"none", "">>
Absent == <<"absent", "">>          \* a key that is not in the dict / cookie jar
S(s) == <<"str", s>>
B(b) == <<"bool", b>>
I(n) == <<"int", n>>

\* Python truthiness, as used by `not status` and `not cookie`
Truthy(v) == v \notin {None, B("false"), I("0"), S(""), <<"list", "[]">>, <<"dict", "{}">>}

\* str() as applied by an f-string
Str(v) == IF v = None THEN "None"
          ELSE IF v = B("true") THEN "True"
          ELSE IF v = B("false") THEN "False"
          ELSE v[2]

\* dict.get(key) on a decoded body: None when the key is missing
Get(body, key) == IF body[key] = Absent THEN None ELSE body[key]

----------------------------------------------------------------------------
(* ApiFields *)

SUCCESS == "success"
MSG == "msg"
OBJ == "obj"

----------------------------------------------------------------------------
(* Inputs *)

Clients == {"client", "inbound", "database"}
Tokens == {S("s1"), S("s2")}

SuccessVals == {Absent, None, B("true"), B("false"), I("0"), S("ok")}
MsgVals == {Absent, S(""), S("bad")}
ObjVals == {Absent, None, S("o1")}
CookieVals == {Absent, S("")} \cup Tokens

\* a body that is a JSON object
Envelopes == [json : {TRUE}, success : SuccessVals, msg : MsgVals, obj : ObjVals]
\* a body that is not JSON at all
NotJson == [json |-> FALSE, success |-> Absent, msg |-> Absent, obj |-> Absent]
Bodies == Envelopes \cup {NotJson}

NoResponse == [status |-> 0, body |-> NotJson, cookie |-> Absent]

\* responses the panel gives to login (a cookie may be set, no obj) and to
\* the other endpoints (no cookie)
LoginResponses == [status : {200, 500},
                   body : {b \in Bodies : b.obj = Absent},
                   cookie : CookieVals]
EndpointResponses == [status : {200, 500}, body : Bodies, cookie : {Absent}]

TransportErrors == {"ConnectionError", "Timeout", "InvalidURL"}

Failed(e) == [kind |-> "exception", exc |-> e, response |-> NoResponse]
Answered(r) == [kind |-> "response", exc |-> "", response |-> r]

Outcomes(o) == {Failed(e) : e \in TransportErrors}
                 \cup {Answered(r) : r \in IF o \in {"login", "api_login"} THEN LoginResponses
                                                         ELSE EndpointResponses}

RetryVals == (0 - 1) .. MaxBudget
SkipArgs == {"absent", "true", "false"}

----------------------------------------------------------------------------
(* Results of a call *)

NoText == <<"", "">>
NoResult == [kind |-> "none", exc |-> "", text |-> NoText, response |-> NoResponse]
Return(r) == [kind |-> "return", exc |-> "", text |-> NoText, response |-> r]
Raise(e, t) == [kind |-> "raise", exc |-> e, text |-> t, response |-> NoResponse]
\* the loop goes on: sleep(d), then the next iteration
Again(d) == [kind |-> "retry", exc |-> "", text |-> <<"sleep", "">>,
             response |-> NoResponse, delay |-> d]

----------------------------------------------------------------------------
(* BaseApi._check_response *)

CheckResponseNoMsg(r) ==
    IF ~r.body.json THEN Raise("JSONDecodeError", NoText)
    ELSE IF ~Truthy(Get(r.body, SUCCESS))
         THEN Raise("ValueError", <<"API request failed with message: ", "">>)
         ELSE NoResult

CheckResponseEmptyDefault(r) ==
    IF ~r.body.json THEN Raise("JSONDecodeError", NoText)
    ELSE IF ~Truthy(Get(r.body, SUCCESS))
         THEN Raise("ValueError",
                    <<"API request failed with message: ",
                      IF r.body[MSG] = Absent THEN "" ELSE Str(r.body[MSG])>>)
         ELSE NoResult

CheckResponse(r) ==
    IF ~r.body.json THEN Raise("JSONDecodeError", NoText)
    ELSE LET status == Get(r.body, SUCCESS)
             message == Get(r.body, MSG)
         IN IF ~Truthy(status)
            THEN Raise("ValueError",
                       <<"API request failed with message: ", Str(message)>>)
            ELSE NoResult

----------------------------------------------------------------------------
(* BaseApi._request_with_retry, one loop iteration *)

\* kwargs.pop("skip_check", False)
PopSkipCheck(kw) == [value |-> (kw = "true"), rest |-> "absent"]

\* except (ConnectionError, Timeout)
RetryableWithHttp(e) == e \in {"ConnectionError", "Timeout", "HTTPError"}
RetryableWithValueError(e) == e \in {"ConnectionError", "Timeout", "ValueError"}
RetryableAny(e) == e \in {"ConnectionError", "Timeout", "InvalidURL"}
Retryable(e) == e \in {"ConnectionError", "Timeout"}

\* for retry in range(1, self.max_retries + 1): e is max_retries as read
\* when the range was built
InRangeOneMore(r, e) == r <= e + 1
InRangeLive(r, e) == r <= max_retries[self]
InRange(r, e) == r <= e

\* if retry == self.max_retries
IsLastRetryEarly(r, m) == r + 1 = m
IsLastRetryNever(r, m) == FALSE
IsLastRetry(r, m) == r = m

\* sleep(1 * (retry + 1))
BackoffDelayFlat(r) == 1
BackoffDelayIndex(r) == 1 * r
BackoffDelay(r) == 1 * (r + 1)

\* cookies={"session": self.session}
CookieArgNone(c) == None
CookieArgCaptured(c) == IF cookies # <<>> THEN cookies[1] ELSE session[c]
CookieArg(c) == session[c]

TryBlockSkipFirst(kw, out) ==
    LET skip_check == PopSkipCheck(kw).value
    IN IF out.kind = "exception"
       THEN Raise(out.exc, NoText)
       ELSE IF skip_check
            THEN Return(out.response)
            ELSE IF out.response.status >= 400
                 THEN Raise("HTTPError", NoText)
                 ELSE LET chk == CheckResponse(out.response)
                      IN IF chk.kind = "raise" THEN chk ELSE Return(out.response)

\* the try block (lines 204-210): what it returns or raises
TryBlock(kw, out) ==
    LET skip_check == PopSkipCheck(kw).value
    IN IF out.kind = "exception"
       THEN Raise(out.exc, NoText)
       ELSE IF out.response.status >= 400
            THEN Raise("HTTPError", NoText)          \* response.raise_for_status()
            ELSE IF skip_check
                 THEN Return(out.response)
                 ELSE LET chk == CheckResponse(out.response)
                      IN IF chk.kind = "raise" THEN chk ELSE Return(out.response)

\* the except clauses (lines 211-219) applied to what the try block did
ExceptClauses(c, r, res) ==
    IF res.kind = "raise" /\ Retryable(res.exc)
    THEN IF IsLastRetry(r, max_retries[c])
         THEN res                                    \* raise e
         ELSE Again(BackoffDelay(r))
    ELSE res                 \* raise e, an uncaught ValueError, or the return

\* one iteration of the for loop
Iteration(c, kw, r, out) == ExceptClauses(c, r, TryBlock(kw, out))

\* TRUE iff the iteration hands the response to _check_response
RunsValidator(kw, out) ==
    /\ out.kind = "response"
    /\ out.response.status < 400
    /\ ~PopSkipCheck(kw).value

----------------------------------------------------------------------------
(* BaseApi.login, after _post has returned *)

LoginCookieNoneOnly(r) ==
    LET cookie == IF r.cookie = Absent THEN None ELSE r.cookie
    IN IF cookie = None
       THEN [raised |-> TRUE, session |-> None]
       ELSE [raised |-> FALSE, session |-> cookie]

LoginCookieFromBody(r) ==
    LET cookie == IF r.cookie = Absent THEN None ELSE r.cookie
    IN IF ~Truthy(cookie)
       THEN [raised |-> TRUE, session |-> None]
       ELSE [raised |-> FALSE, session |-> Get(r.body, MSG)]

LoginCookie(r) ==
    LET cookie == IF r.cookie = Absent THEN None ELSE r.cookie
    IN IF ~Truthy(cookie)
       THEN [raised |-> TRUE, session |-> None]
       ELSE [raised |-> FALSE, session |-> cookie]

----------------------------------------------------------------------------
(* JSON texts and decoded values                                           *)
(*                                                                         *)
(* A text is a sequence of tokens; a token is a value <<type, text>> or a  *)
(* punctuation mark. A dict is a sequence of <<key, value>> pairs in       *)
(* insertion order. Lists and nested objects are opaque values.            *)

P(x) == <<"punct", x>>
W(x) == <<"word", x>>               \* characters that are no JSON token
L(x) == <<"list", x>>
D(x) == <<"dict", x>>

DictVal(d) == [kind |-> "dict", dict |-> d, text |-> <<>>, atom |-> None]
StrVal(t) == [kind |-> "str", dict |-> <<>>, text |-> t, atom |-> None]
AtomVal(a) == [kind |-> "atom", dict |-> <<>>, text |-> <<>>, atom |-> a]
NoValue == [kind |-> "none", dict |-> <<>>, text |-> <<>>, atom |-> None]

IsValueToken(t) == t[1] \in {"str", "bool", "int", "none", "list", "dict"}

Keys(d) == {d[i][1] : i \in DOMAIN d}
Lookup(d, k) == IF k \in Keys(d)
                THEN d[CHOOSE i \in DOMAIN d : d[i][1] = k][2]
                ELSE Absent

\* a later member with the same key replaces the value of an earlier one
DictMerge(pair, rest) ==
    IF pair[1] \in Keys(rest)
    THEN <<<<pair[1], Lookup(rest, pair[1])>>>>
           \o SelectSeq(rest, LAMBDA q : q[1] # pair[1])
    ELSE <<pair>> \o rest

Parsed(d) == [ok |-> TRUE, dict |-> d]
NotParsed == [ok |-> FALSE, dict |-> <<>>]

\* the members between the braces of an object
RECURSIVE ParseMembers(_, _)
ParseMembers(m, first) ==
    IF m = <<>>
    THEN IF first THEN Parsed(<<>>) ELSE NotParsed
    ELSE IF Len(m) >= 3 /\ m[1][1] = "str" /\ m[2] = P(":") /\ IsValueToken(m[3])
         THEN IF Len(m) = 3
              THEN Parsed(<<<<m[1][2], m[3]>>>>)
              ELSE IF m[4] = P(",")
                   THEN LET rest == ParseMembers(SubSeq(m, 5, Len(m)), FALSE)
                        IN IF rest.ok
                           THEN Parsed(DictMerge(<<m[1][2], m[3]>>, rest.dict))
                           ELSE NotParsed
                   ELSE NotParsed
         ELSE NotParsed

\* json.loads: [ok |-> FALSE] stands for json.JSONDecodeError
JsonLoads(t) ==
    IF Len(t) = 1 /\ IsValueToken(t[1])
    THEN [ok |-> TRUE,
          value |-> IF t[1][1] = "str" THEN StrVal(<<W(t[1][2])>>) ELSE AtomVal(t[1])]
    ELSE IF Len(t) >= 2 /\ t[1] = P("{") /\ t[Len(t)] = P("}")
         THEN LET ms == ParseMembers(SubSeq(t, 2, Len(t) - 1), TRUE)
              IN [ok |-> ms.ok, value |-> IF ms.ok THEN DictVal(ms.dict) ELSE NoValue]
         ELSE [ok |-> FALSE, value |-> NoValue]

\* the JSON text of an object
RECURSIVE DumpMembers(_)
DumpMembers(d) ==
    IF d = <<>> THEN <<>>
    ELSE <<S(d[1][1]), P(":"), d[1][2]>>
           \o (IF Len(d) > 1 THEN <<P(",")>> \o DumpMembers(Tail(d)) ELSE <<>>)

JsonDumps(d) == <<P("{")>> \o DumpMembers(d) \o <<P("}")>>

----------------------------------------------------------------------------
(* JsonStringModel.model_validate, the mode="before" validator *)

NotHooked == [raised |-> FALSE, value |-> NoValue]

HookRaising(values) ==
    IF values.kind = "str"
    THEN IF JsonLoads(values.text).ok
         THEN [raised |-> FALSE, value |-> JsonLoads(values.text).value]
         ELSE [raised |-> TRUE, value |-> NoValue]
    ELSE [raised |-> FALSE, value |-> values]

HookNoDecode(values) == [raised |-> FALSE, value |-> values]

HookMissingReturn(values) ==
    IF values.kind = "str" /\ JsonLoads(values.text).ok
    THEN [raised |-> FALSE, value |-> JsonLoads(values.text).value]
    ELSE [raised |-> FALSE, value |-> AtomVal(None)]

Hook(values) ==
    IF values.kind = "str" /\ JsonLoads(values.text).ok
    THEN [raised |-> FALSE, value |-> JsonLoads(values.text).value]
    ELSE [raised |-> FALSE, value |-> values]      \* except JSONDecodeError: pass

\* the classes that inherit the validator: class X(JsonStringModel)
HasHookEveryModel(k) == TRUE
HasHook(k) == k \in {"Settings", "StreamSettings", "Sniffing"}

\* what runs before the fields of class k are validated
BeforeValidators(k, values) ==
    IF HasHook(k) THEN Hook(values) ELSE [raised |-> FALSE, value |-> values]

----------------------------------------------------------------------------
(* Settings, StreamSettings, Sniffing: declared fields and validation *)

Fld(n, a, t, req, dflt) ==
    [name |-> n, alias |-> a, type |-> t, required |-> req, default |-> dflt]

Fields(k) ==
    IF k = "Settings"
    THEN <<Fld("clients", "clients", "list[Client]", FALSE, L("[]")),
           Fld("decryption", "decryption", "str", FALSE, S("")),
           Fld("fallbacks", "fallbacks", "list", FALSE, L("[]"))>>
    ELSE IF k = "Inbound"
    THEN <<Fld("enable", "enable", "bool", TRUE, None),
           Fld("port", "port", "int", TRUE, None),
           Fld("protocol", "protocol", "str", TRUE, None),
           Fld("settings", "settings", "Settings", TRUE, None),
           Fld("stream_settings", "streamSettings", "StreamSettings", TRUE, None),
           Fld("sniffing", "sniffing", "Sniffing", TRUE, None),
           Fld("listen", "listen", "str", FALSE, S("")),
           Fld("remark", "remark", "str", FALSE, S("")),
           Fld("id", "id", "int", FALSE, I("0")),
           Fld("up", "up", "int", FALSE, I("0")),
           Fld("down", "down", "int", FALSE, I("0")),
           Fld("total", "total", "int", FALSE, I("0")),
           Fld("expiry_time", "expiryTime", "int", FALSE, I("0")),
           Fld("client_stats", "clientStats", "list[Client]", FALSE, L("[]")),
           Fld("tag", "tag", "str", FALSE, S(""))>>
    ELSE IF k = "StreamSettings"
    THEN <<Fld("security", "security", "str", TRUE, None),
           Fld("network", "network", "str", TRUE, None),
           Fld("tcp_settings", "tcpSettings", "dict", FALSE, D("{}")),
           Fld("external_proxy", "externalProxy", "list", FALSE, L("[]")),
           Fld("reality_settings", "realitySettings", "dict", FALSE, D("{}")),
           Fld("xtls_settings", "xtlsSettings", "dict", FALSE, D("{}")),
           Fld("tls_settings", "tlsSettings", "dict", FALSE, D("{}"))>>
    ELSE <<Fld("enabled", "enabled", "bool", TRUE, None),
           Fld("dest_override", "destOverride", "list[str]", FALSE, L("[]")),
           Fld("metadata_only", "metadataOnly", "bool", FALSE, B("false")),
           Fld("route_only", "routeOnly", "bool", FALSE, B("false"))>>

\* model_config = ConfigDict(populate_by_name=True)
PopulateByName(k) == k \in {"StreamSettings", "Inbound"}

Invalid == <<"invalid", "">>

\* pydantic's (lax) validation of one value against a field type
Coerce(t, v) ==
    IF t = "str" THEN (IF v[1] = "str" THEN v ELSE Invalid)
    ELSE IF t = "int"
         THEN IF v[1] = "int" THEN v
              ELSE IF v = S("443") THEN I("443")
              ELSE Invalid
    ELSE IF t \in {"Settings", "StreamSettings", "Sniffing"}
         \* a nested model, from an object or (through its hook) from the
         \* JSON text of that object
         THEN IF v \in {D("obj"), S("{obj}")} THEN <<"model", "obj">> ELSE Invalid
    ELSE IF t = "bool"
         THEN IF v[1] = "bool" THEN v
              ELSE IF v \in {I("1"), S("true")} THEN B("true")
              ELSE IF v \in {I("0"), S("false")} THEN B("false")
              ELSE Invalid
    ELSE IF t = "dict" THEN (IF v[1] = "dict" THEN v ELSE Invalid)
    ELSE IF t = "list" THEN (IF v[1] = "list" THEN v ELSE Invalid)
    ELSE IF t = "list[str]" THEN (IF v \in {L("[]"), L("[s]")} THEN v ELSE Invalid)
    ELSE IF v = L("[]") THEN v ELSE Invalid                     \* list[Client]

\* the value a field is validated from: by alias, then by name if allowed
FieldInput(k, f, d) ==
    IF Lookup(d, f.alias) # Absent THEN Lookup(d, f.alias)
    ELSE IF PopulateByName(k) THEN Lookup(d, f.name)
    ELSE Absent

FieldValue(k, f, d) ==
    LET x == FieldInput(k, f, d)
    IN IF x = Absent
       THEN IF f.required THEN Invalid ELSE f.default
       ELSE Coerce(f.type, x)

NotBuilt == [ok |-> FALSE, model |-> <<>>, error |-> ""]
Failure(e) == [ok |-> FALSE, model |-> <<>>, error |-> e]

\* field validation of class k on an already hooked value
Validation(k, v) ==
    IF v.kind # "dict" THEN Failure("ValidationError")
    ELSE LET fs == Fields(k)
             m == [i \in DOMAIN fs |-> <<fs[i].name, FieldValue(k, fs[i], v.dict)>>]
         IN IF \E i \in DOMAIN m : m[i][2] = Invalid
            THEN Failure("ValidationError")
            ELSE [ok |-> TRUE, model |-> m, error |-> ""]

\* model_dump(by_alias=True): the fields under their aliases
ModelDumpByName(k, m) == [i \in DOMAIN m |-> <<Fields(k)[i].name, m[i][2]>>]
ModelDump(k, m) == [i \in DOMAIN m |-> <<Fields(k)[i].alias, m[i][2]>>]

\* model_dump_json(by_alias=True)
ModelDumpJson(k, m) == JsonDumps(ModelDump(k, m))

\* the keys to_json keeps of model_dump(by_alias=True): include, lines 87-94
ToJsonIncludeWithId == {"remark", "enable", "listen", "port", "protocol", "expiryTime", "id"}
ToJsonInclude == {"remark", "enable", "listen", "port", "protocol", "expiryTime"}

\* self.settings.model_dump_json(by_alias=True) of a nested model: the JSON
\* text of its object
NestedDumpJson(v) == IF v = <<"model", "obj">> THEN S("{obj}") ELSE Invalid

\* the dict Inbound.to_json returns, lines 96-106
InboundToJson(m) ==
    SelectSeq(ModelDump("Inbound", m), LAMBDA q : q[1] \in ToJsonInclude)
      \o <<<<"settings", NestedDumpJson(Lookup(m, "settings"))>>,
           <<"streamSettings", NestedDumpJson(Lookup(m, "stream_settings"))>>,
           <<"sniffing", NestedDumpJson(Lookup(m, "sniffing"))>>>>

----------------------------------------------------------------------------
(* Wire data handed to the model classes *)

ModelClasses == {"Settings", "StreamSettings", "Sniffing"}

\* the Inbound field each class is the type of
InboundField(k) == IF k = "Settings" THEN "settings"
                   ELSE IF k = "StreamSettings" THEN "streamSettings"
                   ELSE "sniffing"

Candidates(k) ==
    IF k = "Settings"
    THEN {<<"clients", L("[]")>>, <<"decryption", S("aes")>>, <<"decryption", I("1")>>,
          <<"fallbacks", L("[s]")>>, <<"extra", S("x")>>}
    ELSE IF k = "StreamSettings"
    THEN {<<"security", S("tls")>>, <<"network", S("tcp")>>, <<"network", B("true")>>,
          <<"tcpSettings", D("tcp")>>, <<"tcp_settings", D("tcp2")>>}
    ELSE {<<"enabled", B("true")>>, <<"enabled", I("1")>>, <<"enabled", L("[]")>>,
          <<"destOverride", L("[s]")>>, <<"dest_override", L("[s]")>>,
          <<"metadataOnly", B("true")>>}

\* an inbound as the panel sends it, and variations of it
InboundPayload ==
    <<<<"enable", B("true")>>, <<"port", I("443")>>, <<"protocol", S("vless")>>,
      <<"settings", S("{obj}")>>, <<"streamSettings", S("{obj}")>>,
      <<"sniffing", D("obj")>>>>

InboundDicts ==
    {InboundPayload,
     InboundPayload \o <<<<"expiryTime", I("7")>>, <<"remark", S("r")>>>>,
     InboundPayload \o <<<<"id", I("5")>>, <<"up", I("9")>>, <<"tag", S("t")>>,
                         <<"listen", S("l")>>>>,
     [InboundPayload EXCEPT ![5] = <<"stream_settings", D("obj")>>],
     [InboundPayload EXCEPT ![2] = <<"port", S("443")>>],
     [InboundPayload EXCEPT ![2] = <<"port", S("x")>>],
     [InboundPayload EXCEPT ![4] = <<"settings", L("[]")>>],
     SubSeq(InboundPayload, 1, 5)}

Dicts(k) ==
    IF k = "Inbound" THEN InboundDicts
    ELSE {d \in UNION {[1 .. n -> Candidates(k)] : n \in 0 .. MaxKeys} :
            \A i, j \in DOMAIN d : d[i][1] = d[j][1] => i = j}

\* the typed domain models
TypedModels == ModelClasses \cup {"Inbound"}

\* structured values that are no object
OtherValues == {AtomVal(None), AtomVal(L("[]")), AtomVal(I("1"))}

\* strings that are not JSON
InvalidJsonTexts ==
    {<<>>,
     <<W("hello")>>,
     <<P("{")>>,
     <<P("{"), S("clients"), P(":"), L("[]")>>,
     <<P("{"), S("clients"), L("[]"), P("}")>>,
     <<P("{"), S("clients"), P(":"), L("[]"), P(","), P("}")>>,
     <<P("{"), W("clients"), P(":"), L("[]"), P("}")>>,
     <<P("{"), S("enabled"), P(":"), B("true"), P("}"), P("}")>>}

\* strings that are JSON but no JSON object written by the panel
OtherJsonTexts ==
    {<<S("abc")>>, <<I("1")>>, <<None>>, <<L("[]")>>,
     <<P("{"), S("enabled"), P(":"), B("false"), P(","),
       S("enabled"), P(":"), B("true"), P("}")>>}

----------------------------------------------------------------------------
(* BaseApi.__init__ and BaseApi._url; strings are sequences of characters *)

HostChars == {"h", "/"}
HostInputs == UNION {[1 .. n -> HostChars] : n \in 0 .. MaxHostLen}
DefaultHost == <<"h", "/">>

\* str.rstrip("/")
RstripOnce(h) == IF h # <<>> /\ h[Len(h)] = "/" THEN SubSeq(h, 1, Len(h) - 1) ELSE h

RECURSIVE Rstrip(_)
Rstrip(h) == IF h # <<>> /\ h[Len(h)] = "/" THEN Rstrip(SubSeq(h, 1, Len(h) - 1)) ELSE h

\* the endpoint each kind of call asks for
Endpoint(o) == IF o \in {"login", "api_login"} THEN <<"login">>
               ELSE IF o \in {"get", "get_list", "async_get_list"}
                    THEN <<"panel/api/inbounds/list">>
               ELSE IF o \in {"get_by_id", "async_get_by_id"}
                    THEN <<"panel/api/inbounds/get/", "1">>
               ELSE IF o = "get_by_email"
                    THEN <<"panel/api/inbounds/getClientTraffics/", "e">>
               ELSE IF o = "get_ips" THEN <<"panel/api/inbounds/clientIps/", "e">>
               ELSE IF o = "online" THEN <<"panel/api/inbounds/onlines">>
               ELSE <<"panel/api/inbounds/add">>

\* f"{self._host}/{endpoint}"
UrlNoSlash(c, endpoint) == host[c] \o endpoint
Url(c, endpoint) == host[c] \o <<"/">> \o endpoint

\* self._max_retries = value
StoredBudgetClamped(v) == IF v < 1 THEN 1 ELSE v
StoredBudget(v) == v

----------------------------------------------------------------------------
(* Api.login, after self.client.login() has returned *)

ApiLoginCopyInboundOnly(sess) == [sess EXCEPT !["inbound"] = sess["client"]]
ApiLoginCopy(sess) ==
    [sess EXCEPT !["inbound"] = sess["client"], !["database"] = sess["client"]]

IsLogin(o) == o \in {"login", "api_login"}

\* how login (lines 135-140) ends, given how its _post ended
LoginOutcome(o, res) ==
    IF ~IsLogin(o) THEN "none"
    ELSE IF res.kind # "return" THEN "propagated"
    ELSE IF LoginCookie(res.response).raised THEN "ValueError"
    ELSE "ok"

\* the tokens of the sub-clients when the call of sub-client c ends with res:
\* only login (line 140) and Api.login (lines 92-94) assign them
SessionAfterAnyCall(o, c, res) ==
    IF res.kind = "return" /\ ~LoginCookie(res.response).raised
    THEN LET stored == [session EXCEPT ![c] = LoginCookie(res.response).session]
         IN IF o = "api_login" THEN ApiLoginCopy(stored) ELSE stored
    ELSE session

SessionAfterEager(o, c, res) ==
    IF IsLogin(o) /\ res.kind = "return"
    THEN LET stored == [session EXCEPT ![c] = LoginCookie(res.response).session]
         IN IF o = "api_login" THEN ApiLoginCopy(stored) ELSE stored
    ELSE session

SessionAfterShared(o, c, res) ==
    IF LoginOutcome(o, res) = "ok"
    THEN [d \in Clients |-> LoginCookie(res.response).session]
    ELSE session

SessionAfter(o, c, res) ==
    IF LoginOutcome(o, res) = "ok"
    THEN LET stored == [session EXCEPT ![c] = LoginCookie(res.response).session]
         IN IF o = "api_login" THEN ApiLoginCopy(stored) ELSE stored
    ELSE session

----------------------------------------------------------------------------
(* Endpoint operations: what each does with the response its call returned. *)
(* Logging calls have no effect on the state and are left out.              *)

NoOp == [kind |-> "none", exc |-> "", value |-> None, fromObj |-> FALSE]
\* the operation returns a value it made from obj
OpReturn(v) == [kind |-> "return", exc |-> "", value |-> v, fromObj |-> TRUE]
\* the operation raises after reading obj
OpRaise(e) == [kind |-> "raise", exc |-> e, value |-> None, fromObj |-> TRUE]
\* the exception of the send propagates through the operation
OpPropagate(res) == [kind |-> "raise", exc |-> res.exc, value |-> None, fromObj |-> FALSE]

\* Inbound.model_validate(data) on one decoded object
InboundValidate(v) ==
    IF v = D("inb") THEN [ok |-> TRUE, model |-> <<"Inbound", "inb">>]
    ELSE [ok |-> FALSE, model |-> None]

\* Client.model_validate(client_json)
ClientValidate(v) ==
    IF v = D("cl") THEN [ok |-> TRUE, model |-> <<"Client", "cl">>]
    ELSE [ok |-> FALSE, model |-> None]

\* [Inbound.model_validate(data) for data in inbounds_json]
ValidateEach(v) ==
    IF v \in {None, B("true"), B("false")} \/ v[1] = "int"
    THEN OpRaise("TypeError")                      \* not iterable
    ELSE IF v \in {L("[]"), D("{}"), S("")}
    THEN OpReturn(L("[]"))                         \* nothing to iterate over
    ELSE IF v = L("[inb]")
    THEN OpReturn(<<"list[Inbound]", "[inb]">>)
    ELSE OpRaise("ValidationError")

\* InboundApi.get_list, lines 22-24
GetList(r) ==
    LET inbounds_json == IF r.body[OBJ] = Absent THEN L("[]") ELSE r.body[OBJ]
    IN ValidateEach(inbounds_json)

\* AsyncInboundApi.get_list, lines 69-71
AsyncGetList(r) ==
    LET inbounds_json == Get(r.body, OBJ)
    IN ValidateEach(inbounds_json)

\* InboundApi.get_by_id, lines 36-41
GetById(r) ==
    LET inbound_json == Get(r.body, OBJ)
    IN IF ~Truthy(inbound_json) THEN OpReturn(None)
       ELSE IF InboundValidate(inbound_json).ok
            THEN OpReturn(InboundValidate(inbound_json).model)
            ELSE OpRaise("ValidationError")

\* AsyncInboundApi.get_by_id, lines 106-111
AsyncGetById(r) ==
    LET inbound_json == Get(r.body, OBJ)
    IN IF Truthy(inbound_json)
       THEN IF InboundValidate(inbound_json).ok
            THEN OpReturn(InboundValidate(inbound_json).model)
            ELSE OpRaise("ValidationError")
       ELSE OpRaise("ValueError")

\* ClientApi.get_by_email, lines 42-46
GetByEmail(r) ==
    LET client_json == Get(r.body, OBJ)
    IN IF ~Truthy(client_json) THEN OpReturn(None)
       ELSE IF ClientValidate(client_json).ok
            THEN OpReturn(ClientValidate(client_json).model)
            ELSE OpRaise("ValidationError")

\* ApiFields.NO_IP_RECORD
NO_IP_RECORD == S("No IP Record")

\* ClientApi.get_ips, lines 75-76
GetIps(r) ==
    LET ips_json == Get(r.body, OBJ)
    IN OpReturn(IF ips_json # NO_IP_RECORD THEN ips_json ELSE None)

\* ClientApi.online, lines 271-272
Online(r) ==
    LET online == Get(r.body, OBJ)
    IN OpReturn(IF Truthy(online) THEN online ELSE L("[]"))

SyncOperations == {"get_list", "get_by_id", "get_by_email", "get_ips", "online"}
AsyncOperations == {"async_get_list", "async_get_by_id"}
Operations == SyncOperations \cup AsyncOperations

\* the sub-client each operation is a method of
Owner(o) == IF o \in {"get_by_email", "get_ips", "online"} THEN "client" ELSE "inbound"

\* how operation o ends, given how its _get or _post ended
OpOutcome(o, res) ==
    IF o \notin Operations THEN NoOp
    ELSE IF res.kind # "return" THEN OpPropagate(res)
    ELSE IF o = "get_list" THEN GetList(res.response)
    ELSE IF o = "async_get_list" THEN AsyncGetList(res.response)
    ELSE IF o = "get_by_id" THEN GetById(res.response)
    ELSE IF o = "async_get_by_id" THEN AsyncGetById(res.response)
    ELSE IF o = "get_by_email" THEN GetByEmail(res.response)
    ELSE IF o = "get_ips" THEN GetIps(res.response)
    ELSE Online(res.response)

----------------------------------------------------------------------------
(* State machine *)

\* three sub-clients constructed with the same arguments, nothing running
ApiInit(h) ==
    /\ hostArg = h
    /\ host = [c \in Clients |-> Rstrip(h)]
    /\ username = [c \in Clients |-> "user"]
    /\ password = [c \in Clients |-> "pass"]
    /\ session = [c \in Clients |-> None]
    /\ max_retries = [c \in Clients |-> 3]
    /\ setterArg = [c \in Clients |-> 3]
    /\ pc = "idle"
    /\ self = "client"
    /\ op = "none"
    /\ kwargs = "absent"
    /\ skipArg = "absent"
    /\ rangeEnd = 0
    /\ retry = 0
    /\ attempts = 0
    /\ cookies = <<>>
    /\ outcomes = <<>>
    /\ delays = <<>>
    /\ response = NoResponse
    /\ checked = FALSE
    /\ sendResult = NoResult
    /\ loginResult = "none"
    /\ url = <<>>
    /\ opResult = NoOp

\* an Api built with skip_login=True, its constructor returned
Constructed ==
    /\ skip_login = TRUE
    /\ ctor = "returned"

\* no model is being constructed
ModelIdle ==
    /\ cls = "none"
    /\ origin = NoValue
    /\ raw = NoValue
    /\ stage = "none"
    /\ hooked = NotHooked
    /\ built = NotBuilt
    /\ dumped = NotBuilt

InitWith(h) ==
    /\ ApiInit(h)
    /\ Constructed
    /\ ModelIdle

Init == InitWith(DefaultHost)

\* entry of _request_with_retry: range(1, self.max_retries + 1) is built
Send(c, o, kw) ==
    /\ pc = "idle"
    /\ pc' = "running"
    /\ self' = c
    /\ op' = o
    /\ url' = Url(c, Endpoint(o))
    /\ kwargs' = kw
    /\ skipArg' = kw
    /\ rangeEnd' = max_retries[c]
    /\ retry' = 1
    /\ attempts' = 0
    /\ cookies' = <<>>
    /\ outcomes' = <<>>
    /\ delays' = <<>>
    /\ response' = NoResponse
    /\ checked' = FALSE
    /\ sendResult' = NoResult
    /\ loginResult' = "none"
    /\ opResult' = NoOp
    /\ UNCHANGED <<sessionVars, configVars, setterArg, modelVars>>

\* a call made on an Api whose constructor has returned
StartSend(c, o, kw) ==
    /\ ctor = "returned"
    /\ Send(c, o, kw)
    /\ UNCHANGED ctor

LoginSkippingCheck(c) == StartSend(c, "login", "true")

\* BaseApi.login: self._post(url, headers, data)
Login(c) == StartSend(c, "login", "absent")

\* Api.login: self.client.login()
ApiLogin == StartSend("client", "api_login", "absent")

\* BaseApi._get(url, headers, **kwargs)
GetCall(c, kw) == StartSend(c, "get", kw)

\* BaseApi._post(url, headers, data, **kwargs)
PostCall(c, kw) == StartSend(c, "post", kw)

\* one iteration of the for loop; for login, the rest of login when the
\* call returns; for Api.login, the rest of Api.login when login returns
Attempt(out) ==
    /\ pc = "running"
    /\ InRange(retry, rangeEnd)
    /\ LET res == Iteration(self, kwargs, retry, out)
       IN /\ attempts' = attempts + 1
          /\ cookies' = Append(cookies, CookieArg(self))
          /\ outcomes' = Append(outcomes, out)
          /\ kwargs' = PopSkipCheck(kwargs).rest
          /\ response' = IF out.kind = "response" THEN out.response ELSE response
          /\ checked' = RunsValidator(kwargs, out)
          /\ IF res.kind = "retry"
             THEN /\ delays' = Append(delays, res.delay)
                  /\ retry' = retry + 1
                  /\ UNCHANGED <<pc, sendResult, loginResult, session, opResult>>
             ELSE /\ pc' = "done"
                  /\ sendResult' = res
                  /\ UNCHANGED <<delays, retry>>
                  /\ loginResult' = LoginOutcome(op, res)
                  /\ session' = SessionAfter(op, self, res)
                  /\ opResult' = OpOutcome(op, res)
    /\ UNCHANGED <<max_retries, self, op, rangeEnd, skipArg, url, configVars, setterArg,
                   modelVars, ctor>>

\* raise requests.exceptions.RetryError(...), lines 220-222
RetryErrorRaised ==
    Raise("RetryError", <<"Max retries exceeded with no successful response to ", "url">>)

\* the for loop is exhausted: raise requests.exceptions.RetryError
LoopExit ==
    /\ pc = "running"
    /\ ~InRange(retry, rangeEnd)
    /\ pc' = "done"
    /\ sendResult' = RetryErrorRaised
    /\ loginResult' = IF IsLogin(op) THEN "propagated" ELSE loginResult
    /\ opResult' = OpOutcome(op, RetryErrorRaised)
    /\ UNCHANGED <<session, max_retries, self, op, kwargs, rangeEnd, retry, attempts,
                   cookies, outcomes, delays, response, checked, skipArg, url,
                   configVars, setterArg, modelVars, ctor>>

\* the call has returned or raised to its caller; its frame is gone. When
\* the caller is Api.__init__ (line 49), the constructor returns or raises
Finish ==
    /\ pc = "done"
    /\ pc' = "idle"
    /\ self' = "client"
    /\ op' = "none"
    /\ kwargs' = "absent"
    /\ skipArg' = "absent"
    /\ rangeEnd' = 0
    /\ retry' = 0
    /\ attempts' = 0
    /\ cookies' = <<>>
    /\ outcomes' = <<>>
    /\ delays' = <<>>
    /\ response' = NoResponse
    /\ checked' = FALSE
    /\ sendResult' = NoResult
    /\ loginResult' = "none"
    /\ url' = <<>>
    /\ opResult' = NoOp
    /\ ctor' = IF ctor = "login"
               THEN IF loginResult = "ok" THEN "returned" ELSE "raised"
               ELSE ctor
    /\ UNCHANGED <<sessionVars, configVars, setterArg, modelVars>>

\* self._max_retries = value
AssignMaxRetries(c, v) ==
    /\ ctor = "returned"
    /\ max_retries' = [max_retries EXCEPT ![c] = StoredBudget(v)]
    /\ setterArg' = [setterArg EXCEPT ![c] = v]
    /\ UNCHANGED <<session, callVars, configVars, modelVars, ctor>>

\* self._session = value
AssignSession(c, v) ==
    /\ ctor = "returned"
    /\ session' = [session EXCEPT ![c] = v]
    /\ UNCHANGED <<max_retries, callVars, configVars, setterArg, modelVars, ctor>>

\* max_retries setter, called by the flow that makes the calls
SetMaxRetries(c, v) ==
    /\ pc = "idle"
    /\ AssignMaxRetries(c, v)

\* session setter, called by the flow that makes the calls
SetSession(c, v) ==
    /\ pc = "idle"
    /\ AssignSession(c, v)

\* max_retries setter, called by another flow while a send is between two
\* steps of its loop
OtherFlowSetMaxRetries(c, v) ==
    /\ pc = "running"
    /\ AssignMaxRetries(c, v)

\* the token replaced by another flow while a send is between two steps of
\* its loop: the session setter, or line 140 of a login of that flow
OtherFlowSetSession(c, v) ==
    /\ pc = "running"
    /\ AssignSession(c, v)

\* a single BaseApi instance used from one flow
Next ==
    \/ Login("client")
    \/ \E kw \in SkipArgs : GetCall("client", kw)
    \/ \E kw \in SkipArgs : PostCall("client", kw)
    \/ \E out \in Outcomes(op) : Attempt(out)
    \/ LoopExit
    \/ Finish
    \/ \E v \in RetryVals : SetMaxRetries("client", v)
    \/ \E v \in Tokens \cup {None} : SetSession("client", v)

Spec == Init /\ [][Next]_vars

----------------------------------------------------------------------------
(* An Api and its three sub-clients: Api.login, login and calls on any one  *)
(* sub-client, token assignment on any one sub-client                       *)

ApiLoginResponses == {r \in LoginResponses :
                        /\ r.body.json
                        /\ r.body.msg = Absent
                        /\ r.body.success \in {B("true"), B("false")}
                        /\ r.status = 200 \/ r.body.success = B("true")}
ApiEndpointResponses == [status : {200},
                         body : {b \in Envelopes : /\ b.msg = Absent
                                                    /\ b.obj = Absent
                                                    /\ b.success \in {B("true"), B("false")}},
                         cookie : {Absent, S("s2")}]
                          \cup [status : {500},
                                body : {b \in Envelopes : /\ b.msg = Absent
                                                           /\ b.obj = Absent
                                                           /\ b.success = B("true")},
                                cookie : {Absent}]

ApiRetryVals == {0, 3}

ApiOutcomes(o) == {Failed("ConnectionError")}
                    \cup {Answered(r) : r \in IF IsLogin(o) THEN ApiLoginResponses
                                                           ELSE ApiEndpointResponses}

NextApi ==
    \/ ApiLogin
    \/ \E c \in Clients : Login(c)
    \/ \E c \in Clients : GetCall(c, "absent")
    \/ \E out \in ApiOutcomes(op) : Attempt(out)
    \/ Finish
    \/ \E c \in Clients, v \in Tokens \cup {None} : SetSession(c, v)
    \/ \E c \in Clients, v \in ApiRetryVals : SetMaxRetries(c, v)
    \/ LoopExit

SpecApi == Init /\ [][NextApi]_vars

----------------------------------------------------------------------------
(* Api.__init__: the three sub-clients are built, then login unless         *)
(* skip_login; afterwards the Api is used as above                          *)

\* if not skip_login
CtorLogsInAlways(skip) == TRUE
CtorLogsIn(skip) == ~skip

InitCtor ==
    /\ ApiInit(DefaultHost)
    /\ ModelIdle
    /\ skip_login \in BOOLEAN
    /\ ctor = "new"

\* skip_login is true: __init__ returns
CtorSkip ==
    /\ ctor = "new"
    /\ pc = "idle"
    /\ ~CtorLogsIn(skip_login)
    /\ ctor' = "returned"
    /\ UNCHANGED <<sessionVars, configVars, callVars, setterArg, modelVars>>

\* self.login()
CtorLogin ==
    /\ ctor = "new"
    /\ CtorLogsIn(skip_login)
    /\ ctor' = "login"
    /\ Send("client", "api_login", "absent")

NextCtor ==
    \/ CtorSkip
    \/ CtorLogin
    \/ ApiLogin
    \/ \E c \in Clients : Login(c)
    \/ \E c \in Clients : GetCall(c, "absent")
    \/ \E out \in ApiOutcomes(op) : Attempt(out)
    \/ Finish
    \/ \E v \in ApiRetryVals : SetMaxRetries("client", v)
    \/ LoopExit

SpecCtor == InitCtor /\ [][NextCtor]_vars

----------------------------------------------------------------------------
(* A single BaseApi whose running send always gets to take its next step:   *)
(* every attempt is answered or fails, every sleep returns                  *)

SpecFair ==
    /\ Init
    /\ [][Next]_vars
    /\ WF_vars(\E out \in Outcomes(op) : Attempt(out))
    /\ WF_vars(LoopExit)

----------------------------------------------------------------------------
(* A single BaseApi shared by two flows: one makes the calls, the other     *)
(* assigns max_retries and the token while a send of the first is running   *)

ConcResponses ==
    {r \in EndpointResponses :
       /\ r.body.json
       /\ r.body.success = B("true")
       /\ r.body.msg = Absent
       /\ r.body.obj = Absent}
ConcOutcomes == {Failed("ConnectionError")} \cup {Answered(r) : r \in ConcResponses}

NextConc ==
    \/ GetCall("client", "absent")
    \/ PostCall("client", "absent")
    \/ \E out \in ConcOutcomes : Attempt(out)
    \/ LoopExit
    \/ Finish
    \/ \E v \in RetryVals : SetMaxRetries("client", v)
    \/ \E v \in Tokens \cup {None} : SetSession("client", v)
    \/ \E v \in RetryVals : OtherFlowSetMaxRetries("client", v)
    \/ \E v \in Tokens \cup {None} : OtherFlowSetSession("client", v)

SpecConc == Init /\ [][NextConc]_vars

----------------------------------------------------------------------------
(* The endpoint operations of InboundApi, ClientApi and AsyncInboundApi *)

OpObjVals == {Absent, None, L("[]"), L("[inb]"), D("{}"), D("inb"), D("cl"),
              NO_IP_RECORD, S("1.2.3.4")}
OpsEnvelopes == [json : {TRUE},
                 success : {Absent, B("true"), B("false")},
                 msg : {Absent, S("bad")},
                 obj : OpObjVals]
OpsResponses == [status : {200, 500}, body : OpsEnvelopes \cup {NotJson}, cookie : {Absent}]
OpsOutcomes == {Failed("ConnectionError"), Failed("InvalidURL")}
                 \cup {Answered(r) : r \in OpsResponses}

\* get_list and get_by_id: response = self._get(url, headers)
InboundOperationSkippingCheck(o) == StartSend(Owner(o), o, "true")
InboundOperation(o) == StartSend(Owner(o), o, "absent")

\* get_by_email: self._get(url, headers); get_ips and online:
\* self._post(url, headers, data)
ClientOperation(o) == StartSend(Owner(o), o, "absent")

\* AsyncBaseApi._get: the send of the async variant, with the semantics of
\* the synchronous one
AsyncSend(c, o, kw) == StartSend(c, o, kw)

\* async get_list and get_by_id: response = await self._get(url, headers)
AsyncOperation(o) == AsyncSend(Owner(o), o, "absent")

NextOps ==
    \/ \E o \in {"get_list", "get_by_id"} : InboundOperation(o)
    \/ \E o \in {"get_by_email", "get_ips", "online"} : ClientOperation(o)
    \/ \E o \in AsyncOperations : AsyncOperation(o)
    \/ \E out \in OpsOutcomes : Attempt(out)
    \/ LoopExit
    \/ Finish
    \/ \E c \in {"client", "inbound"}, v \in ApiRetryVals : SetMaxRetries(c, v)

SpecOps == Init /\ [][NextOps]_vars

----------------------------------------------------------------------------
(* One BaseApi constructed with any host string *)

InitUrl == \E h \in HostInputs : InitWith(h)

NextUrl ==
    \/ Login("client")
    \/ GetCall("client", "absent")
    \/ PostCall("client", "absent")
    \/ \E out \in ApiOutcomes(op) : Attempt(out)
    \/ Finish

SpecUrl == InitUrl /\ [][NextUrl]_vars

----------------------------------------------------------------------------
(* Construction of a Settings, StreamSettings or Sniffing from wire data:   *)
(* the field of an Inbound arrives as an object, as the JSON text of that   *)
(* object, or as some other string                                          *)

InitModel ==
    /\ ApiInit(DefaultHost)
    /\ Constructed
    /\ cls \in TypedModels
    /\ stage = "new"
    /\ hooked = NotHooked
    /\ built = NotBuilt
    /\ dumped = NotBuilt
    /\ \/ \E d \in Dicts(cls) :
            /\ origin = DictVal(d)
            /\ raw \in {DictVal(d), StrVal(JsonDumps(d))}
       \/ /\ origin = NoValue
          /\ raw \in {StrVal(t) : t \in InvalidJsonTexts \cup OtherJsonTexts}
                      \cup OtherValues

\* the mode="before" validator runs first
RunHook ==
    /\ stage = "new"
    /\ stage' = "hooked"
    /\ hooked' = BeforeValidators(cls, raw)
    /\ UNCHANGED <<apiVars, cls, origin, raw, built, dumped>>

\* then the fields are validated
RunValidation ==
    /\ stage = "hooked"
    /\ stage' = "validated"
    /\ built' = IF hooked.raised
                THEN Failure("JSONDecodeError")
                ELSE Validation(cls, hooked.value)
    /\ UNCHANGED <<apiVars, cls, origin, raw, hooked, dumped>>

\* Inbound.to_json, lines 100-102: the sub-model is written as JSON text,
\* which then arrives as wire data for the same field
ToJson ==
    /\ stage = "validated"
    /\ built.ok
    /\ cls \in ModelClasses
    /\ dumped' = built
    /\ origin' = DictVal(ModelDump(cls, built.model))
    /\ raw' = StrVal(ModelDumpJson(cls, built.model))
    /\ stage' = "new"
    /\ hooked' = NotHooked
    /\ built' = NotBuilt
    /\ UNCHANGED <<apiVars, cls>>

\* Inbound.to_json: the dict it returns is used as wire data for an Inbound
ToJsonInbound ==
    /\ stage = "validated"
    /\ built.ok
    /\ cls = "Inbound"
    /\ dumped' = built
    /\ origin' = DictVal(InboundToJson(built.model))
    /\ raw' = DictVal(InboundToJson(built.model))
    /\ stage' = "new"
    /\ hooked' = NotHooked
    /\ built' = NotBuilt
    /\ UNCHANGED <<apiVars, cls>>

NextModel == RunHook \/ RunValidation \/ ToJson \/ ToJsonInbound

SpecModel == InitModel /\ [][NextModel]_vars

----------------------------------------------------------------------------
(* Vocabulary of the properties *)

Last(q) == q[Len(q)]
Front(q) == SubSeq(q, 1, Len(q) - 1)

\* a transient transport failure
Transient(out) == out.kind = "exception" /\ out.exc \in {"ConnectionError", "Timeout"}
AllTransient(q) == \A i \in DOMAIN q : Transient(q[i])

\* values of the success flag that Python treats as false / as true
FalsySuccess == {Absent, None, B("false"), I("0")}
TruthySuccess == {B("true"), S("ok")}

\* an attempt that succeeds: HTTP status ok and an envelope with success true
Succeeds(out) ==
    /\ out.kind = "response"
    /\ out.response.status = 200
    /\ out.response.body.json
    /\ out.response.body.success \in TruthySuccess

\* an attempt that meets a logical API failure; an envelope is only looked
\* at when the caller did not opt out of validation
HttpError(out) == out.kind = "response" /\ out.response.status >= 400
SuccessFalse(out) ==
    /\ out.kind = "response"
    /\ out.response.status = 200
    /\ out.response.body.json
    /\ out.response.body.success \in FalsySuccess

StrictlyIncreasing(q) == \A i, j \in DOMAIN q : i < j => q[i] < q[j]

InCall == pc \in {"running", "done"}

----------------------------------------------------------------------------
(* Properties *)

\* C1: with max_retries >= 1, k < max_retries transient failures followed by
\* a successful attempt end the send: it returns that response after exactly
\* k + 1 attempts, having slept k strictly increasing delays.
C1_SuccessAfterTransients ==
    (/\ InCall
     /\ rangeEnd >= 1
     /\ outcomes # <<>>
     /\ Len(outcomes) - 1 < rangeEnd
     /\ AllTransient(Front(outcomes))
     /\ Succeeds(Last(outcomes)))
    => /\ pc = "done"
       /\ sendResult = Return(Last(outcomes).response)
       /\ attempts = Len(outcomes)
       /\ Len(delays) = Len(outcomes) - 1
       /\ StrictlyIncreasing(delays)

C1_Witness ==
    /\ pc = "done"
    /\ rangeEnd = 3
    /\ Len(outcomes) = 3
    /\ AllTransient(Front(outcomes))
    /\ Succeeds(Last(outcomes))
    /\ sendResult.kind = "return"
    /\ Len(delays) = 2

\* C2: with max_retries >= 1, a send whose attempts all fail transiently
\* makes exactly max_retries attempts, neither stopping earlier nor going
\* on, and then raises.
C2_ExactlyMaxRetriesAttempts ==
    (InCall /\ rangeEnd >= 1 /\ AllTransient(outcomes))
    => /\ attempts = Len(outcomes)
       /\ attempts <= rangeEnd
       /\ (pc = "done") <=> (attempts = rangeEnd)
       /\ pc = "done" => sendResult.kind = "raise"

C2_Witness ==
    /\ pc = "done"
    /\ rangeEnd = 3
    /\ attempts = 3
    /\ AllTransient(outcomes)
    /\ sendResult.kind = "raise"

\* C3: a send that exhausts its budget of max_retries >= 1 transient
\* failures raises requests' RetryError (wrapping the last transport error).
C3_ExhaustionRaisesRetryError ==
    (/\ pc = "done"
     /\ rangeEnd >= 1
     /\ Len(outcomes) = rangeEnd
     /\ AllTransient(outcomes))
    => sendResult.kind = "raise" /\ sendResult.exc = "RetryError"

\* C4: a logical API failure on the first attempt (HTTP error status, or an
\* envelope with success false under validation) makes the send raise after
\* exactly one attempt and without any backoff delay, whatever max_retries.
C4_LogicalFailureNotRetried ==
    (/\ InCall
     /\ outcomes # <<>>
     /\ \/ HttpError(outcomes[1])
        \/ skipArg # "true" /\ SuccessFalse(outcomes[1]))
    => /\ pc = "done"
       /\ attempts = 1
       /\ delays = <<>>
       /\ sendResult.kind = "raise"
       /\ sendResult.exc = IF HttpError(outcomes[1]) THEN "HTTPError" ELSE "ValueError"

C4_Witness ==
    /\ pc = "done"
    /\ rangeEnd = 3
    /\ attempts = 1
    /\ SuccessFalse(outcomes[1])
    /\ sendResult.exc = "ValueError"
    /\ delays = <<>>

\* C5: a transport exception other than a connection error or a timeout
\* propagates out of the send at once: the attempt that met it is the last
\* one and no delay is slept after it.
C5_OtherExceptionPropagates ==
    (/\ InCall
     /\ outcomes # <<>>
     /\ Last(outcomes) = Failed("InvalidURL"))
    => /\ pc = "done"
       /\ sendResult = Raise("InvalidURL", NoText)
       /\ attempts = Len(outcomes)
       /\ Len(delays) = Len(outcomes) - 1

C5_Witness ==
    /\ pc = "done"
    /\ rangeEnd = 3
    /\ attempts = 1
    /\ outcomes = <<Failed("InvalidURL")>>
    /\ sendResult.exc = "InvalidURL"
    /\ delays = <<>>

\* C6: every attempt carries as its session cookie the token held by the
\* session state of the calling client at the time of that attempt (None
\* before the first login).
C6_CookieIsCurrentToken ==
    [][attempts' = attempts + 1
         => /\ Len(cookies') = attempts'
            /\ Last(cookies') = session[self]
            /\ Front(cookies') = cookies]_vars

C6_Witness ==
    /\ InCall
    /\ attempts = 2
    /\ session[self] \in Tokens
    /\ cookies = <<session[self], session[self]>>

\* C7: a send called with skip_check=True never runs the wire validator, on
\* no attempt, and returns the response of the attempt that succeeds at
\* transport level even when its envelope has success false.
C7_SkipCheckNeverValidates ==
    (/\ InCall
     /\ skipArg = "true"
     /\ outcomes # <<>>
     /\ Last(outcomes).kind = "response"
     /\ Last(outcomes).response.status = 200)
    => /\ ~checked
       /\ pc = "done"
       /\ sendResult = Return(Last(outcomes).response)

\* C8: the wire validator raises a failure carrying the envelope's msg for
\* every envelope whose success flag is false, missing or falsy, whatever
\* obj is; for a truthy flag it raises nothing, the response is returned,
\* and the session state is left as it was.
C8_ValidatorOutcome ==
    (pc = "done" /\ checked /\ response.body.json)
    => IF response.body.success \in FalsySuccess
       THEN /\ sendResult.kind = "raise"
            /\ sendResult.exc = "ValueError"
            /\ sendResult.text[1] = "API request failed with message: "
            /\ response.body.msg # Absent => sendResult.text[2] = response.body.msg[2]
       ELSE sendResult = Return(response)

C8_ValidatorPure ==
    [][(checked' /\ attempts' = attempts + 1 /\ op # "login")
         => session' = session /\ max_retries' = max_retries]_vars

C8_Validator == []C8_ValidatorOutcome /\ C8_ValidatorPure

C8_Witness ==
    /\ pc = "done"
    /\ checked
    /\ response.body.success = B("false")
    /\ response.body.msg = S("bad")
    /\ response.body.obj = S("o1")
    /\ sendResult.text[2] = "bad"

\* C9 as claimed: a rejected envelope without msg yields the empty message.
C9_AbsentMsgIsEmpty ==
    (/\ pc = "done"
     /\ checked
     /\ sendResult.exc = "ValueError"
     /\ response.body.msg = Absent)
    => sendResult.text[2] = ""

\* C9 amended: a rejected envelope without msg yields a failure whose
\* message is the rendering of Python's None, the text "None".
C9_AbsentMsgIsNone ==
    (/\ pc = "done"
     /\ checked
     /\ sendResult.exc = "ValueError"
     /\ response.body.msg = Absent)
    => sendResult.text = <<"API request failed with message: ", "None">>

C9_Witness ==
    /\ pc = "done"
    /\ checked
    /\ sendResult.exc = "ValueError"
    /\ response.body.success = B("false")
    /\ response.body.msg = Absent
    /\ sendResult.text[2] = "None"

\* C10: a login answered with HTTP 200 and success true but without a
\* (non-empty) session cookie raises at that attempt, makes no further one,
\* and leaves the session token as it was (unset if never authenticated).
C10_LoginWithoutCookie ==
    [][(/\ op = "login"
        /\ attempts' = attempts + 1
        /\ Succeeds(Last(outcomes'))
        /\ Last(outcomes').response.cookie \in {Absent, S("")})
         => /\ pc' = "done"
            /\ sendResult'.kind = "return"
            /\ loginResult' = "ValueError"
            /\ session' = session]_vars

C10_Witness ==
    /\ pc = "done"
    /\ op = "login"
    /\ Succeeds(Last(outcomes))
    /\ response.cookie = S("")
    /\ loginResult = "ValueError"
    /\ session[self] = None

\* a step in which login stores a token
LoginStores == loginResult # "ok" /\ loginResult' = "ok"

\* C11: a login that returns normally leaves as session token the `session`
\* cookie of the login response (its cookie jar, not its body); the token
\* then changes only by another successful login or by an assignment through
\* the session setter, and every request carries the token held at its time.
C11_LoginStoresCookie ==
    [][/\ LoginStores
          => /\ Last(outcomes').response.cookie \in Tokens
             /\ session'[self] = Last(outcomes').response.cookie
       /\ session' # session
          => \/ LoginStores
             \/ pc = "idle" /\ pc' = "idle"
       /\ attempts' = attempts + 1 => Last(cookies') = session[self]]_vars

C11_Witness ==
    /\ pc = "done"
    /\ op = "login"
    /\ loginResult = "ok"
    /\ session[self] = response.cookie
    /\ Last(cookies) \in Tokens
    /\ Last(cookies) # session[self]

\* C12: login cannot skip the wire validator: a login response with HTTP 200
\* whose envelope has success false or no success flag makes login raise
\* even if a session cookie came with it, and that cookie is not stored.
C12_LoginAlwaysValidated ==
    [][(/\ op = "login"
        /\ attempts' = attempts + 1
        /\ SuccessFalse(Last(outcomes'))
        /\ Last(outcomes').response.cookie \in Tokens)
         => /\ checked'
            /\ pc' = "done"
            /\ sendResult'.kind = "raise"
            /\ sendResult'.exc = "ValueError"
            /\ loginResult' = "propagated"
            /\ session' = session]_vars

C12_Witness ==
    /\ pc = "done"
    /\ op = "login"
    /\ SuccessFalse(Last(outcomes))
    /\ response.body.success = Absent
    /\ response.cookie = S("s1")
    /\ loginResult = "propagated"
    /\ session[self] # S("s1")

\* a step taken by a setter called from outside any running call
SetterStep == pc = "idle" /\ pc' = "idle"

\* C13: host, username, password, session token and max_retries of every
\* sub-client are left unchanged by every step of every call, whatever its
\* outcome and number of retries, except that a login that returns normally
\* writes the token (of the sub-client it ran on; of all three for
\* Api.login); max_retries changes only through its setter.
C13_SessionStateFrame ==
    [][/\ host' = host /\ username' = username /\ password' = password
       /\ max_retries' # max_retries => SetterStep
       /\ session' # session => SetterStep \/ (IsLogin(op) /\ LoginStores)
       /\ (~SetterStep /\ ~IsLogin(op) /\ ~IsLogin(op'))
            => session' = session /\ max_retries' = max_retries
       /\ (LoginStores /\ op = "login")
            => \A d \in Clients \ {self} : session'[d] = session[d]]_vars

C13_Witness ==
    /\ pc = "done"
    /\ op = "get"
    /\ self = "inbound"
    /\ attempts = 2
    /\ sendResult.kind = "return"
    /\ response.cookie = S("s2")
    /\ session["inbound"] = S("s1")
    /\ session["client"] = None

\* C14: when Api.login returns normally the client, inbound and database
\* sub-clients all hold the token of the session cookie obtained by the one
\* login made on the client sub-client; a single request sequence is issued.
C14_ApiLoginPropagates ==
    (pc = "done" /\ op = "api_login" /\ loginResult = "ok")
    => /\ \A c \in Clients : session[c] = response.cookie
       /\ response.cookie \in Tokens
       /\ self = "client"
       /\ url = host["client"] \o <<"/", "login">>
       /\ attempts = Len(outcomes)
       /\ attempts <= rangeEnd
       /\ AllTransient(Front(outcomes))

C14_Witness ==
    /\ pc = "done"
    /\ op = "api_login"
    /\ loginResult = "ok"
    /\ attempts = 2
    /\ \A c \in Clients : session[c] = S("s2")

\* C15 as claimed: the three sub-clients hold the same token in every state.
C15_TokensAlwaysShared ==
    \A c, d \in Clients : session[c] = session[d]

\* C15 amended: each sub-client holds its own token. The three tokens are
\* equal when Api.login returns normally; a login called on one sub-client
\* or a token assignment on one sub-client changes the token of that
\* sub-client only.
C15_TokensPerSubClient ==
    [][/\ (LoginStores /\ op = "api_login")
            => \A c, d \in Clients : session'[c] = session'[d]
       /\ (LoginStores /\ op = "login")
            => /\ session'[self] = response'.cookie
               /\ \A d \in Clients \ {self} : session'[d] = session[d]
       /\ SetterStep
            => \A c, d \in Clients :
                 (session'[c] # session[c] /\ session'[d] # session[d]) => c = d]_vars

C15_Witness ==
    /\ pc = "done"
    /\ op = "login"
    /\ self = "inbound"
    /\ loginResult = "ok"
    /\ session["inbound"] = S("s1")
    /\ session["client"] = S("s2")
    /\ session["database"] = S("s2")

\* C16 as claimed: max_retries is at least 1 in every reachable state.
C16_BudgetAtLeastOne ==
    \A c \in Clients : max_retries[c] >= 1

\* C16 amended: max_retries is 3 on a freshly constructed client and
\* afterwards is exactly the integer last passed to its setter, which is
\* stored unvalidated and may be 0 or negative.
C16_BudgetIsLastAssigned ==
    /\ \A c \in Clients : max_retries[c] = 3
    /\ [](\A c \in Clients : max_retries[c] \in Int /\ max_retries[c] = setterArg[c])

C16_Witness ==
    /\ pc = "idle"
    /\ setterArg["client"] = 0
    /\ max_retries["client"] = 0

\* the sum of the delays slept
RECURSIVE SumSeq(_)
SumSeq(q) == IF q = <<>> THEN 0 ELSE q[1] + SumSeq(SubSeq(q, 2, Len(q)))

\* max_retries = 3, transient failures on attempts 1 and 2, success on 3
Scenario3 ==
    /\ pc = "done"
    /\ rangeEnd = 3
    /\ Len(outcomes) = 3
    /\ AllTransient(Front(outcomes))
    /\ Succeeds(Last(outcomes))

\* C17 as claimed: the delay after the i-th failed attempt is i seconds, and
\* the scenario sleeps 1s + 2s = 3s in total.
C17_DelayIsAttemptIndex ==
    /\ \A i \in DOMAIN delays : delays[i] = i
    /\ Scenario3 => SumSeq(delays) = 3

\* C17 amended: the delay after the i-th failed attempt is i + 1 seconds
\* (2s, 3s, ...), and the scenario sleeps 2s + 3s = 5s in total.
C17_DelayIsAttemptIndexPlusOne ==
    /\ \A i \in DOMAIN delays : delays[i] = i + 1
    /\ Scenario3 => SumSeq(delays) = 5

C17_Witness ==
    /\ Scenario3
    /\ sendResult.kind = "return"
    /\ delays = <<2, 3>>

\* the host with every trailing slash removed
Stripped(h) ==
    SubSeq(h, 1, CHOOSE n \in 0 .. Len(h) :
                   /\ n = 0 \/ h[n] # "/"
                   /\ \A i \in (n + 1) .. Len(h) : h[i] = "/")

\* C18: whatever host string the client was constructed with, the stored
\* host is that string without its trailing slashes, it never changes, and
\* the URL of every request is the stored host, one slash and the endpoint.
C18_HostAndUrl ==
    /\ [](\A c \in Clients :
            /\ host[c] = <<>> \/ host[c][Len(host[c])] # "/"
            /\ host[c] = Stripped(hostArg))
    /\ [](InCall => url = Stripped(hostArg) \o <<"/">> \o Endpoint(op))
    /\ [][host' = host]_vars

C18_Witness ==
    /\ InCall
    /\ op = "get"
    /\ attempts = 1
    /\ hostArg = <<"h", "/", "/">>
    /\ url = <<"h", "/", "panel/api/inbounds/list">>

\* the text '{"clients": []}'
ClientsOnlyText == <<P("{"), S("clients"), P(":"), L("[]"), P("}")>>

\* C19: for settings, streamSettings and sniffing and every structured value
\* that is valid for the field, the field is constructed successfully and to
\* the same model whether the value arrives as an object or as its JSON
\* text; settings arriving as '{"clients": []}' gives clients == [].
C19_ObjectAndStringAgree ==
    /\ (/\ stage = "validated"
        /\ cls \in ModelClasses
        /\ origin.kind = "dict"
        /\ Validation(cls, origin).ok)
         => /\ built.ok
            /\ built = Validation(cls, origin)
    /\ (stage = "validated" /\ cls = "Settings" /\ raw = StrVal(ClientsOnlyText))
         => /\ built.ok
            /\ Lookup(built.model, "clients") = L("[]")

C19_Witness ==
    /\ stage = "validated"
    /\ cls = "Settings"
    /\ raw = StrVal(ClientsOnlyText)
    /\ origin = DictVal(<<<<"clients", L("[]")>>>>)
    /\ built.ok
    /\ built.model = <<<<"clients", L("[]")>>, <<"decryption", S("")>>,
                       <<"fallbacks", L("[]")>>>>

\* C20: a string that is not valid JSON makes the hook raise nothing and
\* return the string it was given; validation then fails with the standard
\* validation error, which is the only failure reported.
C20_MalformedStringFallsThrough ==
    (/\ stage \in {"hooked", "validated"}
     /\ raw.kind = "str"
     /\ raw.text \in InvalidJsonTexts)
    => /\ ~hooked.raised
       /\ hooked.value = raw
       /\ stage = "validated" => (~built.ok /\ built.error = "ValidationError")

C20_Witness ==
    /\ stage = "validated"
    /\ raw = StrVal(<<P("{"), S("clients"), P(":"), L("[]"), P(","), P("}")>>)
    /\ hooked.value = raw
    /\ built.error = "ValidationError"

\* C21: an input of the hook that is not a string (an object, a list, null,
\* a number) is returned as it is and nothing is raised; applying the hook
\* to what it returned then changes nothing.
C21_StructuredValueUnchanged ==
    (stage \in {"hooked", "validated"} /\ HasHook(cls) /\ raw.kind # "str")
    => /\ ~hooked.raised
       /\ hooked.value = raw
       /\ Hook(hooked.value) = hooked

C21_Witness ==
    /\ stage = "hooked"
    /\ cls = "Sniffing"
    /\ raw = DictVal(<<<<"enabled", B("true")>>, <<"destOverride", L("[s]")>>>>)
    /\ hooked.value = raw

\* C22: the JSON text that to_json writes for settings, streamSettings and
\* sniffing, fed back through the hook and field validation, decodes to the
\* dumped object and builds a model equal to the one that was dumped.
C22_RoundTrip ==
    (stage = "validated" /\ cls \in ModelClasses /\ dumped # NotBuilt)
    => /\ raw = StrVal(ModelDumpJson(cls, dumped.model))
       /\ hooked.value = DictVal(ModelDump(cls, dumped.model))
       /\ built = dumped

C22_Witness ==
    /\ stage = "validated"
    /\ cls = "Sniffing"
    /\ dumped.ok
    /\ raw.kind = "str"
    /\ Lookup(dumped.model, "dest_override") = L("[s]")
    /\ Lookup(dumped.model, "enabled") = B("true")
    /\ built = dumped

\* a whole payload that is the JSON text of an object valid for the class
EncodedValidPayload ==
    /\ raw.kind = "str"
    /\ origin.kind = "dict"
    /\ raw.text = JsonDumps(origin.dict)
    /\ Validation(cls, origin).ok

\* C26 as claimed: for Inbound, Settings, StreamSettings and Sniffing alike,
\* a whole payload that is the JSON text of a valid object is decoded
\* before field validation and the model is constructed.
C26_EveryModelDecodesPayload ==
    (stage = "validated" /\ EncodedValidPayload)
    => /\ hooked.value = origin
       /\ built.ok

\* C26 amended: the hook belongs to Settings, StreamSettings and Sniffing
\* (the JsonStringModel subclasses): for these the JSON text of a valid
\* object is decoded and the model is constructed. Inbound is a plain model
\* without the hook: a payload that is a string reaches field validation
\* undecoded and the construction fails with the validation error.
C26_HookOnJsonStringModelsOnly ==
    /\ (stage = "validated" /\ EncodedValidPayload /\ cls \in ModelClasses)
         => /\ hooked.value = origin
            /\ built.ok
    /\ (stage \in {"hooked", "validated"} /\ cls = "Inbound" /\ raw.kind = "str")
         => /\ hooked.value = raw
            /\ stage = "validated" => (~built.ok /\ built.error = "ValidationError")

C26_Witness ==
    /\ stage = "validated"
    /\ cls = "Inbound"
    /\ EncodedValidPayload
    /\ raw = StrVal(JsonDumps(InboundPayload))
    /\ built.error = "ValidationError"

\* the lookups by identifier
Lookups == {"get_by_id", "async_get_by_id", "get_by_email"}

\* C23: a lookup by identifier (get_by_id on inbounds, get_by_email on
\* clients) whose response has success true and an absent or empty obj
\* returns None and raises nothing, while the same lookup answered with
\* success false raises.
C23_NotFoundIsNone ==
    /\ (/\ pc = "done"
        /\ op \in Lookups
        /\ sendResult.kind = "return"
        /\ ~Truthy(Get(response.body, OBJ)))
         => opResult = OpReturn(None)
    /\ (/\ pc = "done"
        /\ op \in Lookups
        /\ outcomes # <<>>
        /\ SuccessFalse(Last(outcomes)))
         => opResult.kind = "raise"

\* two outcomes are the same: the same returned value, or a failure in both
SameOutcome(a, b) == (a.kind = "raise" /\ b.kind = "raise") \/ a = b

\* C24: for every response envelope, AsyncInboundApi.get_by_id and get_list
\* end as InboundApi.get_by_id and get_list end on that envelope: with the
\* same returned value, or with a failure in both.
C24_AsyncSameAsSync ==
    (pc = "done" /\ sendResult.kind = "return")
    => /\ op = "get_by_id" => SameOutcome(opResult, AsyncGetById(response))
       /\ op = "async_get_by_id" => SameOutcome(opResult, GetById(response))
       /\ op = "get_list" => SameOutcome(opResult, AsyncGetList(response))
       /\ op = "async_get_list" => SameOutcome(opResult, GetList(response))

\* C25: whatever an endpoint operation makes of obj (the value it returns,
\* or the failure it raises after reading obj) comes from a response that
\* the wire validator accepted: HTTP status ok and a truthy success flag.
C25_ObjOnlyAfterValidation ==
    (pc = "done" /\ op \in Operations /\ opResult.fromObj)
    => /\ checked
       /\ sendResult = Return(response)
       /\ response.status < 400
       /\ response.body.json
       /\ Truthy(Get(response.body, SUCCESS))

C25_Witness ==
    /\ pc = "done"
    /\ op = "get_by_id"
    /\ attempts = 2
    /\ checked
    /\ response.body.obj = D("inb")
    /\ opResult = OpReturn(<<"Inbound", "inb">>)

AllUnset == \A c \in Clients : session[c] = None

\* C27: the constructor of Api returns only after a login that succeeded,
\* unless skip_login is true; with skip_login true it issues no request and
\* returns with the tokens of client, inbound and database unset, and they
\* stay unset until a login stores a token.
C27_ConstructorLogin ==
    [][/\ (ctor # "returned" /\ ctor' = "returned")
            => IF skip_login
               THEN /\ ctor = "new"
                    /\ pc' = "idle"
                    /\ attempts' = 0
                    /\ AllUnset'
               ELSE /\ ctor = "login"
                    /\ op = "api_login"
                    /\ loginResult = "ok"
                    /\ attempts >= 1
                    /\ \A c \in Clients : session'[c] = response.cookie
                    /\ response.cookie \in Tokens
       /\ (skip_login /\ ctor = "new") => (pc' = "idle" /\ attempts' = 0)
       /\ (skip_login /\ AllUnset /\ ~AllUnset')
            => ctor = "returned" /\ IsLogin(op) /\ LoginStores]_vars

C27_Witness ==
    /\ ctor = "returned"
    /\ ~skip_login
    /\ pc = "idle"
    /\ \A c \in Clients : session[c] = S("s1")
    /\ max_retries["client"] = 3

\* the attempts a send may make with the budget read at its entry
Budget == IF rangeEnd > 0 THEN rangeEnd ELSE 0

\* C28: every send terminates: when each attempt and each delay completes,
\* a running send ends by returning a response or by raising, and it never
\* makes more than max_retries attempts, whatever the attempts produce.
C28_SendTerminates ==
    /\ [](InCall => attempts <= Budget)
    /\ (pc = "running") ~> (pc = "done" /\ sendResult.kind \in {"return", "raise"})

C28_Witness ==
    /\ pc = "done"
    /\ rangeEnd = 0
    /\ attempts = 0
    /\ sendResult = RetryErrorRaised

\* C29: every step of a login that does not end the login normally leaves
\* the tokens as they were, so a login that fails (budget exhausted, HTTP
\* error status, success false, no session cookie) keeps the token held
\* before the call; when the client login inside Api.login raises, the
\* tokens of inbound and database are unchanged too.
C29_FailedLoginKeepsToken ==
    [][(IsLogin(op') /\ pc' \in {"running", "done"} /\ ~LoginStores)
         => session' = session]_vars

C29_Witness ==
    /\ pc = "done"
    /\ op = "api_login"
    /\ loginResult = "ValueError"
    /\ response.cookie = Absent
    /\ \A c \in Clients : session[c] = S("s1")

\* C30: within one send a delay is slept only between two attempts: while
\* the loop runs every attempt made was followed by one delay, and when the
\* send has ended after at least one attempt the delays slept are one fewer
\* than the attempts, none following the last attempt.
C30_DelaysBetweenAttempts ==
    /\ pc = "running" => Len(delays) = attempts
    /\ (pc = "done" /\ attempts >= 1) => Len(delays) = attempts - 1

C30_Witness ==
    /\ pc = "done"
    /\ rangeEnd = 3
    /\ attempts = 3
    /\ Len(delays) = 2
    /\ Last(outcomes) = Failed("Timeout")
    /\ sendResult = Raise("Timeout", NoText)

\* C31: with 1 <= k < max_retries, k transient failures followed by an
\* attempt that meets a logical failure (HTTP error status, or success false
\* under validation) end the send at attempt k + 1 with that logical
\* failure, neither a transport error nor RetryError; the rest of the
\* budget is left unused.
C31_LogicalFailureAfterTransients ==
    (/\ InCall
     /\ Len(outcomes) >= 2
     /\ Len(outcomes) <= rangeEnd
     /\ AllTransient(Front(outcomes))
     /\ \/ HttpError(Last(outcomes))
        \/ skipArg # "true" /\ SuccessFalse(Last(outcomes)))
    => /\ pc = "done"
       /\ attempts = Len(outcomes)
       /\ Len(delays) = Len(outcomes) - 1
       /\ sendResult.kind = "raise"
       /\ sendResult.exc = IF HttpError(Last(outcomes)) THEN "HTTPError" ELSE "ValueError"

C31_Witness ==
    /\ pc = "done"
    /\ rangeEnd = 3
    /\ attempts = 2
    /\ Transient(outcomes[1])
    /\ SuccessFalse(outcomes[2])
    /\ skipArg = "absent"
    /\ sendResult.exc = "ValueError"

C35_StatusCheckFirst ==
    [][(attempts' = attempts + 1 /\ HttpError(Last(outcomes')))
         => /\ pc' = "done"
            /\ sendResult' = Raise("HTTPError", NoText)
            /\ ~checked'
            /\ delays' = delays]_vars

C35_Witness ==
    /\ pc = "done"
    /\ skipArg = "true"
    /\ attempts = 2
    /\ HttpError(Last(outcomes))
    /\ Last(outcomes).response.body.success = B("true")
    /\ sendResult.exc = "HTTPError"
    /\ ~checked

\* C33: one send never makes more attempts than max_retries was when the
\* send started: the range of the loop is fixed at entry, and assignments
\* to max_retries by another flow between the attempts, up or down, grant
\* no further attempt.
C33_AttemptsBoundedByEntryBudget ==
    /\ [](InCall => (attempts <= Budget /\ Len(outcomes) = attempts))
    /\ [][(pc = "running" /\ max_retries' # max_retries)
            => (rangeEnd' = rangeEnd /\ attempts' = attempts /\ retry' = retry)]_vars

C33_Witness ==
    /\ pc = "done"
    /\ rangeEnd = 1
    /\ max_retries[self] = 3
    /\ attempts = 1
    /\ outcomes = <<Failed("ConnectionError")>>
    /\ sendResult = RetryErrorRaised

\* C34: the cookie of an attempt is the token the client holds when that
\* attempt is made, not the token held when the send started: after the
\* token is replaced between two attempts the earlier attempts have carried
\* the old token and the next carries the new one; an attempt made while
\* the token is the one the previous attempt carried carries it again.
C34_CookieReadAtEachAttempt ==
    [][/\ attempts' = attempts + 1
            => /\ cookies' = Append(cookies, session[self])
               /\ (cookies # <<>> /\ Last(cookies) = session[self])
                    => Last(cookies') = Last(cookies)
       /\ (pc = "running" /\ session' # session)
            => (cookies' = cookies /\ attempts' = attempts)]_vars

C34_Witness ==
    /\ InCall
    /\ attempts = 3
    /\ cookies = <<S("s1"), S("s1"), S("s2")>>
    /\ session[self] = S("s2")

\* the fields of Inbound that to_json emits, and those it leaves out
EmittedFields == {"remark", "enable", "listen", "port", "protocol", "expiry_time",
                  "settings", "stream_settings", "sniffing"}
OmittedFields == {"id", "up", "down", "total", "client_stats", "tag"}

\* the default of a field of Inbound
DefaultOf(n) == LET fs == Fields("Inbound")
                IN fs[CHOOSE i \in DOMAIN fs : fs[i].name = n].default

\* C36: Inbound.to_json emits exactly the keys remark, enable, listen, port,
\* protocol, expiryTime, settings, streamSettings and sniffing, the last
\* three as JSON strings, and never id, up, down, total, clientStats or tag;
\* an Inbound rebuilt from that output has the nine emitted fields as they
\* were and the other six at their defaults.
C36_ToJsonKeysAndRebuild ==
    (stage \in {"new", "hooked", "validated"} /\ cls = "Inbound" /\ dumped # NotBuilt)
    => /\ Keys(raw.dict) = {"remark", "enable", "listen", "port", "protocol",
                            "expiryTime", "settings", "streamSettings", "sniffing"}
       /\ Len(raw.dict) = 9
       /\ \A k \in {"settings", "streamSettings", "sniffing"} :
            Lookup(raw.dict, k)[1] = "str"
       /\ stage = "validated"
            => /\ built.ok
               /\ \A n \in EmittedFields :
                    Lookup(built.model, n) = Lookup(dumped.model, n)
               /\ \A n \in OmittedFields :
                    Lookup(built.model, n) = DefaultOf(n)

C36_Witness ==
    /\ stage = "validated"
    /\ cls = "Inbound"
    /\ dumped.ok
    /\ Lookup(dumped.model, "id") = I("5")
    /\ Lookup(dumped.model, "tag") = S("t")
    /\ Lookup(dumped.model, "listen") = S("l")
    /\ built.ok
    /\ Lookup(built.model, "id") = I("0")
    /\ Lookup(built.model, "tag") = S("")
    /\ Lookup(built.model, "listen") = S("l")

====
